---- MODULE Spec2Model ----
(***************************************************************************)
(* Task store of TaskList/app.py (class TodoApp): the in-memory task list, *)
(* the filtered/sorted view shown in the listbox, and the JSON file with   *)
(* its .bak sibling.                                                       *)
(*                                                                         *)
(* Abstractions:                                                           *)
(*  - a string is a sequence of one-character strings; characters are      *)
(*    ordered by CodePoint, as Python orders str;                          *)
(*  - a task dict is a function whose DOMAIN is the set of keys present;   *)
(*  - an ISO-8601 timestamp is a positive integer (same order), the empty  *)
(*    string default of t.get('created_at', '') is 0;                      *)
(*  - a file is [kind, data]: absent, corrupt (bytes json.load rejects, a  *)
(*    truncated or partly written file included) or json with the array it *)
(*    denotes;                                                             *)
(*  - uuid.uuid4() returns a value never returned before (uuids counts the *)
(*    values issued so far, across runs of the application);              *)
(*  - a JSON file that is no array of objects with id and title makes      *)
(*    __init__ raise in refresh_listbox, so no such file is among the      *)
(*    initial files; load_tasks validates nothing else, and arrays with    *)
(*    missing completed or created_at keys or with repeated ids are.       *)
(***************************************************************************)
EXTENDS Integers, Sequences, FiniteSets

VARIABLES proc, tasks, filtered_tasks, sort_mode, search_var, sel,
          file, bak, uuids, saved, last, committed, clean, stale, ops

\* proc            "stopped" or "running" (a TodoApp exists and serves events)
\* tasks           self.tasks
\* filtered_tasks  self.filtered_tasks, the rows of the listbox
\* sort_mode       self.sort_mode, "date" or "alpha"
\* search_var      text of the search field
\* sel             selected row of the listbox, 0 for none
\* file, bak       tasks.json and tasks.json.bak
\* saved           how the latest save_tasks of this run ended: "none", "ok"
\*                 (no error box) or "failed" (the error box was shown)
\* last            the latest handler and its message box
\* History, read by the properties only:
\* uuids           uuid4 values issued so far
\* committed       the collection after the latest command that returned
\* clean           that command's save wrote it to the primary file
\* stale           mutating commands since the primary file last received
\*                 the whole collection (counted up to 2)
\* ops             mutating commands started so far
vars == <<proc, tasks, filtered_tasks, sort_mode, search_var, sel,
          file, bak, uuids, saved, last, committed, clean, stale, ops>>

\* ---------------------------------------------------------------- bounds
\* commands that change the collection in one behaviour
MaxOps == 2
\* texts the user can type into the entry field or the edit dialog
RawTitles == { <<>>, <<" ">>, <<" ", "b", " ">> }
\* texts the user can type into the search field
SearchTerms == { <<>>, <<"A", " ">> }
\* values of datetime.now()
Times == {1, 2}

\* ---------------------------------------------------------------- strings
\* ord(c)
CodePoint(c) ==
    CASE c = " " -> 32
      [] c = "A" -> 65
      [] c = "B" -> 66
      [] c = "a" -> 97
      [] c = "b" -> 98

\* str.lower() on one character
LowerChar(c) ==
    CASE c = "A" -> "a"
      [] c = "B" -> "b"
      [] OTHER -> c

\* str.lower()
Lower(s) == [i \in 1..Len(s) |-> LowerChar(s[i])]

IsSpace(c) == c = " "

RECURSIVE LStrip(_)
LStrip(s) == IF s # <<>> /\ IsSpace(Head(s)) THEN LStrip(Tail(s)) ELSE s

RECURSIVE RStrip(_)
RStrip(s) ==
    IF s # <<>> /\ IsSpace(s[Len(s)]) THEN RStrip(SubSeq(s, 1, Len(s) - 1)) ELSE s

\* the text as typed, surrounding spaces kept
NoStrip(s) == s

\* str.strip()
Strip(s) == RStrip(LStrip(s))

\* q in s   (substring test)
Contains(q, s) ==
    \E k \in 0..(Len(s) - Len(q)) : SubSeq(s, k + 1, k + Len(q)) = q

\* a < b on str: lexicographic by code point, a proper prefix is smaller
RECURSIVE StrLess(_, _)
StrLess(a, b) ==
    IF b = <<>> THEN FALSE
    ELSE IF a = <<>> THEN TRUE
    ELSE IF CodePoint(Head(a)) # CodePoint(Head(b))
         THEN CodePoint(Head(a)) < CodePoint(Head(b))
         ELSE StrLess(Tail(a), Tail(b))

\* ---------------------------------------------------------------- dicts
\* t.get(k, d)
Get(t, k, d) == IF k \in DOMAIN t THEN t[k] ELSE d

\* t[k] = v
SetKey(t, k, v) == [x \in (DOMAIN t) \cup {k} |-> IF x = k THEN v ELSE t[x]]

\* list.pop(i) as the remaining list (i is 1-based here)
Pop(s, i) == SubSeq(s, 1, i - 1) \o SubSeq(s, i + 1, Len(s))

\* ---------------------------------------------------------------- sorting
AlphaKey(t) == Lower(t["title"])
DateKey(t) == Get(t, "created_at", 0)

\* key=lambda t: t['title'].lower()
AlphaBefore(x, y) == StrLess(AlphaKey(x), AlphaKey(y))
\* key=lambda t: t.get('created_at', ''), reverse=True
\* reverse=True forgotten: oldest first
DateAscending(x, y) == DateKey(x) < DateKey(y)

DateBefore(x, y) == DateKey(x) > DateKey(y)

Before(mode, x, y) == IF mode = "alpha" THEN AlphaBefore(x, y) ELSE DateBefore(x, y)

\* sorted() is stable, with reverse=True too: x goes before the first element
\* that must follow it, and the elements are inserted from the last to the first
RECURSIVE InsertSorted(_, _, _)
InsertSorted(x, s, mode) ==
    IF s = <<>> THEN <<x>>
    ELSE IF ~Before(mode, Head(s), x) THEN <<x>> \o s
    ELSE <<Head(s)>> \o InsertSorted(x, Tail(s), mode)

RECURSIVE Sorted(_, _)
Sorted(s, mode) ==
    IF s = <<>> THEN <<>>
    ELSE InsertSorted(Head(s), Sorted(Tail(s), mode), mode)

_sort_tasks(ts, mode) == Sorted(ts, mode)

Matches(q, t) == Contains(q, Lower(t["title"]))

\* the value refresh_listbox gives filtered_tasks
refresh_listbox(ts, term, mode) ==
    LET q == Lower(Strip(term))
        KeepQ(t) == Matches(q, t)
    IN _sort_tasks(IF q # <<>> THEN SelectSeq(ts, KeepQ) ELSE ts, mode)

\* ---------------------------------------------------------------- files
Absent == [kind |-> "absent", data |-> <<>>]
Corrupt == [kind |-> "corrupt", data |-> <<>>]
\* json.dump(self.tasks, f, ...): the file denotes the array ts
Json(ts) == [kind |-> "json", data |-> ts]

\* How one call of save_tasks can end.  It returns (an exception of the
\* backup copy is swallowed, one of the primary write is reported) or the
\* process dies inside it.
Returns == {"ok", "bak_fail", "bak_torn", "write_fail", "write_torn"}
Crashes == {"crash_in_backup", "crash_before_write", "crash_in_write"}
SaveOutcomes == Returns \cup Crashes

IsCrash(out) == out \in Crashes
\* the primary file received the whole collection
WriteOk(out) == out \in {"ok", "bak_fail", "bak_torn"}

\* the collection written to the backup path, the primary file left alone
save_tasks_to_backup(ts, f, b, out) ==
    [bak  |-> IF WriteOk(out) THEN Json(ts) ELSE b,
     file |-> f]

\* the two files after save_tasks has run on collection ts
save_tasks(ts, f, b, out) ==
    [bak  |-> IF f.kind = "absent" THEN b
              ELSE IF out = "bak_fail" THEN b
              ELSE IF out \in {"bak_torn", "crash_in_backup"} THEN Corrupt
              ELSE f,
     file |-> IF WriteOk(out) THEN Json(ts)
              ELSE IF out \in {"write_torn", "crash_in_write"} THEN Corrupt
              ELSE f]

\* ---------------------------------------------------------------- helpers
Min(S) == CHOOSE x \in S : \A y \in S : x <= y

\* a missing flag read as true
IsCompletedDefaultTrue(t) == Get(t, "completed", TRUE)

\* t.get('completed', False)
IsCompleted(t) == Get(t, "completed", FALSE)
NotCompleted(t) == ~IsCompleted(t)

\* index in self.tasks of the selected row's task, 0 for None
_get_selected_task ==
    IF sel = 0 THEN 0
    ELSE LET S == {i \in 1..Len(tasks) : tasks[i]["id"] = filtered_tasks[sel]["id"]}
         IN IF S = {} THEN 0 ELSE Min(S)

\* what the last handler did: its name, how it ended, and the number its
\* closing message reports (clear_completed only)
Done(o, r, n) == [op |-> o, res |-> r, n |-> n]
Op(o, r) == Done(o, r, 0)

\* the process is gone: nothing of the in-memory state survives
Gone ==
    /\ proc' = "stopped"
    /\ tasks' = <<>>
    /\ filtered_tasks' = <<>>
    /\ sort_mode' = "date"
    /\ search_var' = <<>>
    /\ sel' = 0
    /\ saved' = "none"
    /\ stale' = 0

\* a handler that never reaches save_tasks: the message box only
NoEffect(o, r) ==
    /\ last' = Op(o, r)
    /\ UNCHANGED <<proc, tasks, filtered_tasks, sort_mode, search_var, sel,
                   file, bak, uuids, saved, committed, clean, stale, ops>>

\* tail of a mutating handler: self.tasks is ts, then save_tasks(),
\* refresh_listbox() (which empties the listbox selection), _update_stats()
Mutated(ts, out, o, n) ==
    LET d == save_tasks(ts, file, bak, out) IN
    /\ ops < MaxOps
    /\ ops' = ops + 1
    /\ file' = d.file
    /\ bak' = d.bak
    /\ IF IsCrash(out)
       THEN /\ Gone
            /\ last' = Op("crash", o)
            /\ UNCHANGED <<committed, clean>>
       ELSE /\ tasks' = ts
            /\ filtered_tasks' = refresh_listbox(ts, search_var, sort_mode)
            /\ sel' = 0
            /\ saved' = IF WriteOk(out) THEN "ok" ELSE "failed"
            /\ last' = Done(o, "ok", n)
            /\ committed' = ts
            /\ clean' = WriteOk(out)
            /\ stale' = IF WriteOk(out) THEN 0 ELSE IF stale < 2 THEN stale + 1 ELSE 2
            /\ UNCHANGED <<proc, sort_mode, search_var>>

\* ---------------------------------------------------------------- actions
\* TodoApp.__init__: load_tasks() then refresh_listbox()
Start(rd, out) ==
    /\ proc = "stopped"
    /\ UNCHANGED <<uuids, ops>>
    /\ IF file.kind = "absent"
       THEN LET d == save_tasks(<<>>, file, bak, out) IN
            /\ file' = d.file /\ bak' = d.bak
            /\ IF IsCrash(out)
               THEN Gone /\ last' = Op("crash", "start") /\ UNCHANGED <<committed, clean>>
               ELSE /\ proc' = "running" /\ tasks' = <<>> /\ filtered_tasks' = <<>>
                    /\ sort_mode' = "date" /\ search_var' = <<>> /\ sel' = 0
                    /\ saved' = IF WriteOk(out) THEN "ok" ELSE "failed"
                    /\ stale' = 0
                    /\ last' = Op("start", "absent")
                    /\ committed' = <<>> /\ clean' = WriteOk(out)
       ELSE IF rd = "io_error"
       THEN /\ proc' = "running" /\ tasks' = <<>> /\ filtered_tasks' = <<>>
            /\ sort_mode' = "date" /\ search_var' = <<>> /\ sel' = 0
            /\ saved' = "none" /\ stale' = 0
            /\ last' = Op("start", "io_error")
            /\ UNCHANGED <<file, bak, committed, clean>>
       ELSE IF file.kind = "corrupt"
       THEN LET d == save_tasks(<<>>, file, bak, out) IN
            /\ file' = d.file /\ bak' = d.bak
            /\ IF IsCrash(out)
               THEN Gone /\ last' = Op("crash", "start") /\ UNCHANGED <<committed, clean>>
               ELSE /\ proc' = "running" /\ tasks' = <<>> /\ filtered_tasks' = <<>>
                    /\ sort_mode' = "date" /\ search_var' = <<>> /\ sel' = 0
                    /\ saved' = IF WriteOk(out) THEN "ok" ELSE "failed"
                    /\ stale' = 0
                    /\ last' = Op("start", "corrupt")
                    /\ UNCHANGED <<committed, clean>>
       ELSE /\ proc' = "running" /\ tasks' = file.data
            /\ filtered_tasks' = refresh_listbox(file.data, <<>>, "date")
            /\ sort_mode' = "date" /\ search_var' = <<>> /\ sel' = 0
            /\ saved' = "none" /\ stale' = 0
            /\ last' = Op("start", "loaded")
            /\ committed' = file.data /\ clean' = TRUE
            /\ UNCHANGED <<file, bak>>

\* the user clicks row k of the listbox
Select(k) ==
    /\ proc = "running"
    /\ k \in 1..Len(filtered_tasks)
    /\ sel' = k
    /\ last' = Op("select", "ok")
    /\ UNCHANGED <<proc, tasks, filtered_tasks, sort_mode, search_var,
                   file, bak, uuids, saved, committed, clean, stale, ops>>

\* the new task appended instead of inserted at index 0
add_task_append(raw, now, out) ==
    /\ proc = "running"
    /\ LET title == Strip(raw) IN
       IF title = <<>>
       THEN NoEffect("add", "EmptyTitle")
       ELSE /\ uuids' = uuids + 1
            /\ LET task == [id |-> uuids + 1, title |-> title,
                            completed |-> FALSE, created_at |-> now]
               IN Mutated(tasks \o <<task>>, out, "add", 0)

add_task(raw, now, out) ==
    /\ proc = "running"
    /\ LET title == Strip(raw) IN
       IF title = <<>>
       THEN NoEffect("add", "EmptyTitle")
       ELSE /\ uuids' = uuids + 1
            /\ LET task == [id |-> uuids + 1, title |-> title,
                            completed |-> FALSE, created_at |-> now]
               IN Mutated(<<task>> \o tasks, out, "add", 0)

edit_task(cancel, raw, now, out) ==
    /\ proc = "running"
    /\ LET idx == _get_selected_task
           new == Strip(raw)
       IN IF idx = 0 THEN NoEffect("edit", "none_selected")
          ELSE IF cancel THEN NoEffect("edit", "cancel")
          ELSE IF new = <<>> THEN NoEffect("edit", "EmptyTitle")
          ELSE /\ UNCHANGED uuids
               /\ Mutated([tasks EXCEPT ![idx] =
                             SetKey(SetKey(@, "title", new), "updated_at", now)],
                          out, "edit", 0)

delete_task(confirm, out) ==
    /\ proc = "running"
    /\ LET idx == _get_selected_task
       IN IF idx = 0 THEN NoEffect("delete", "none_selected")
          ELSE IF ~confirm THEN NoEffect("delete", "cancel")
          ELSE /\ UNCHANGED uuids
               /\ Mutated(Pop(tasks, idx), out, "delete", 0)

toggle_complete(now, out) ==
    /\ proc = "running"
    /\ LET idx == _get_selected_task
       IN IF idx = 0 THEN NoEffect("toggle", "none_selected")
          ELSE /\ UNCHANGED uuids
               /\ Mutated([tasks EXCEPT ![idx] =
                             SetKey(SetKey(@, "completed", ~IsCompleted(@)),
                                    "updated_at", now)],
                          out, "toggle", 0)

\* number the success message reports
completed_count(ts) == Cardinality({i \in 1..Len(ts) : IsCompleted(ts[i])})

clear_completed(confirm, out) ==
    /\ proc = "running"
    /\ IF completed_count(tasks) = 0 THEN NoEffect("clear", "nothing")
       ELSE IF ~confirm THEN NoEffect("clear", "cancel")
       ELSE /\ UNCHANGED uuids
            /\ Mutated(SelectSeq(tasks, NotCompleted), out, "clear", completed_count(tasks))

_manual_save(out) ==
    /\ proc = "running"
    /\ UNCHANGED <<uuids, ops>>
    /\ LET d == save_tasks(tasks, file, bak, out) IN
       /\ file' = d.file /\ bak' = d.bak
       /\ IF IsCrash(out)
          THEN Gone /\ last' = Op("crash", "save") /\ UNCHANGED <<committed, clean>>
          ELSE /\ saved' = IF WriteOk(out) THEN "ok" ELSE "failed"
               /\ last' = Op("save", "ok")
               /\ committed' = tasks
               /\ clean' = WriteOk(out)
               /\ stale' = IF WriteOk(out) THEN 0 ELSE stale
               /\ UNCHANGED <<proc, tasks, filtered_tasks, sort_mode, search_var, sel>>

_on_search_changed(term) ==
    /\ proc = "running"
    /\ search_var' = term
    /\ filtered_tasks' = refresh_listbox(tasks, term, sort_mode)
    /\ sel' = 0
    /\ last' = Op("search", "ok")
    /\ UNCHANGED <<proc, tasks, sort_mode, file, bak, uuids, saved,
                   committed, clean, stale, ops>>

_toggle_sort ==
    /\ proc = "running"
    /\ sort_mode' = IF sort_mode = "date" THEN "alpha" ELSE "date"
    /\ filtered_tasks' = refresh_listbox(tasks, search_var, sort_mode')
    /\ sel' = 0
    /\ last' = Op("sort", "ok")
    /\ UNCHANGED <<proc, tasks, search_var, file, bak, uuids, saved,
                   committed, clean, stale, ops>>

on_close(out) ==
    /\ proc = "running"
    /\ UNCHANGED <<uuids, ops>>
    /\ LET d == save_tasks(tasks, file, bak, out) IN
       /\ file' = d.file /\ bak' = d.bak
       /\ Gone
       /\ IF IsCrash(out)
          THEN last' = Op("crash", "close") /\ UNCHANGED <<committed, clean>>
          ELSE /\ last' = Op("close", "ok")
               /\ committed' = tasks
               /\ clean' = WriteOk(out)

\* the process is killed between two commands
Kill ==
    /\ proc = "running"
    /\ Gone
    /\ last' = Op("kill", "ok")
    /\ UNCHANGED <<file, bak, uuids, committed, clean, ops>>

\* while the application is not running, the primary file is damaged
CorruptFile ==
    /\ proc = "stopped"
    /\ file.kind = "json"
    /\ file' = Corrupt
    /\ last' = Op("corrupt", last.op)
    /\ UNCHANGED <<proc, tasks, filtered_tasks, sort_mode, search_var, sel,
                   bak, uuids, saved, committed, clean, stale, ops>>

\* ---------------------------------------------------------------- spec
\* Largest id of f's tasks: the uuid4 values issued before the first run
IssuedBefore(f) ==
    IF f.data = <<>> THEN 0
    ELSE CHOOSE n \in 1..Len(f.data) :
           /\ \E i \in 1..Len(f.data) : f.data[i]["id"] = n
           /\ \A i \in 1..Len(f.data) : f.data[i]["id"] <= n

\* the application is installed and has not run yet
InitWith(files) ==
    /\ proc = "stopped"
    /\ tasks = <<>>
    /\ filtered_tasks = <<>>
    /\ sort_mode = "date"
    /\ search_var = <<>>
    /\ sel = 0
    /\ file \in files
    /\ bak = Absent
    /\ uuids = IssuedBefore(file)
    /\ saved = "none"
    /\ last = Op("init", "ok")
    /\ committed = file.data
    /\ clean = FALSE
    /\ stale = 0
    /\ ops = 0

\* --- Spec: one run of the application, every command, the save succeeds
\* --- or its write is refused
\* tasks.json as found by the run: none, or a JSON array written by hand
\* or by an earlier version; keys other than id and title may be missing
InitialFiles ==
    { Absent,
      Json(<< [id |-> 1, title |-> <<"a">>, completed |-> TRUE, created_at |-> 1],
              [id |-> 2, title |-> <<"B">>] >>),
      Json(<< [id |-> 1, title |-> <<"a">>, created_at |-> 1],
              [id |-> 1, title |-> <<"A", "b">>, created_at |-> 1] >>) }

StoreOutcomes == {"ok"}

Init == InitWith(InitialFiles)

Next ==
    \/ \E out \in StoreOutcomes : Start("ok", out)
    \/ \E k \in 1..Len(filtered_tasks) : Select(k)
    \/ \E raw \in RawTitles, now \in Times, out \in StoreOutcomes : add_task(raw, now, out)
    \/ \E cancel \in BOOLEAN, raw \in RawTitles, now \in Times, out \in StoreOutcomes :
          edit_task(cancel, raw, now, out)
    \/ \E confirm \in BOOLEAN, out \in StoreOutcomes : delete_task(confirm, out)
    \/ \E now \in Times, out \in StoreOutcomes : toggle_complete(now, out)
    \/ \E confirm \in BOOLEAN, out \in StoreOutcomes : clear_completed(confirm, out)
    \/ \E term \in SearchTerms : _on_search_changed(term)
    \/ _toggle_sort

Spec == Init /\ [][Next]_vars

\* --- SpecDisk: runs, shutdowns, crashes and restarts with every outcome
\* --- of save_tasks; one title and one clock value
DiskFiles ==
    { Absent,
      Json(<< [id |-> 1, title |-> <<"a">>, completed |-> TRUE, created_at |-> 1],
              [id |-> 2, title |-> <<"B">>] >>) }

DiskTitles == { <<" ", "a", " ">> }
DiskTimes == {1}

InitDisk == InitWith(DiskFiles)

NextDisk ==
    \/ \E rd \in {"ok", "io_error"}, out \in SaveOutcomes : Start(rd, out)
    \/ \E k \in 1..Len(filtered_tasks) : Select(k)
    \/ \E raw \in DiskTitles, now \in DiskTimes, out \in SaveOutcomes : add_task(raw, now, out)
    \/ \E raw \in DiskTitles, now \in DiskTimes, out \in SaveOutcomes :
          edit_task(FALSE, raw, now, out)
    \/ \E out \in SaveOutcomes : delete_task(TRUE, out)
    \/ \E now \in DiskTimes, out \in SaveOutcomes : toggle_complete(now, out)
    \/ \E out \in SaveOutcomes : clear_completed(TRUE, out)
    \/ \E out \in SaveOutcomes : _manual_save(out)
    \/ \E out \in SaveOutcomes : on_close(out)
    \/ Kill
    \/ CorruptFile

SpecDisk == InitDisk /\ [][NextDisk]_vars

\* --- SpecQuery: the view of every small collection under every search
\* --- text and both sort modes
\* longest collection
MaxLen == 3

TaskPool ==
    { [id |-> 1, title |-> <<"a">>, completed |-> FALSE, created_at |-> 1],
      [id |-> 2, title |-> <<"A">>, completed |-> TRUE, created_at |-> 2],
      [id |-> 3, title |-> <<"B">>, completed |-> FALSE, created_at |-> 2],
      [id |-> 4, title |-> <<"A", "b">>],
      [id |-> 5, title |-> <<"b", " ", "A">>, completed |-> FALSE, created_at |-> 1] }

Collections == UNION { [1..n -> TaskPool] : n \in 0..MaxLen }

QueryTerms == { <<>>, <<" ">>, <<"A", " ">>, <<"b">>, <<"B", "a">> }

InitQuery ==
    /\ proc = "running"
    /\ tasks \in Collections
    /\ sort_mode \in {"date", "alpha"}
    /\ search_var \in QueryTerms
    /\ filtered_tasks = refresh_listbox(tasks, search_var, sort_mode)
    /\ sel = 0
    /\ file = Json(tasks)
    /\ bak = Absent
    /\ uuids = 5
    /\ saved = "none"
    /\ last = Op("start", "loaded")
    /\ committed = tasks
    /\ clean = TRUE
    /\ stale = 0
    /\ ops = 0

NextQuery ==
    \/ \E term \in QueryTerms : _on_search_changed(term)
    \/ _toggle_sort

SpecQuery == InitQuery /\ [][NextQuery]_vars

\* ---------------------------------------------------------------- properties
\* Vocabulary of the properties, stated without the operators of the model.
IsBlank(raw) == \A i \in 1..Len(raw) : raw[i] = " "

Spaces(n) == [i \in 1..n |-> " "]

\* t is raw without its surrounding spaces, and is not empty
IsTrimOf(t, raw) ==
    /\ t # <<>>
    /\ t[1] # " "
    /\ t[Len(t)] # " "
    /\ \E i, j \in 0..Len(raw) : raw = Spaces(i) \o t \o Spaces(j)

Trimmed(raw) ==
    IF IsBlank(raw) THEN <<>>
    ELSE CHOOSE t \in {SubSeq(raw, i, j) : i, j \in 1..Len(raw)} : IsTrimOf(t, raw)

\* q occurs in s at some offset
Occurs(q, s) ==
    \E k \in 0..(Len(s) - Len(q)) : \A i \in 1..Len(q) : s[k + i] = q[i]

\* a comes strictly before b in code point order
LexLess(a, b) ==
    \E k \in 0..Len(a) :
       /\ k <= Len(b)
       /\ \A i \in 1..k : a[i] = b[i]
       /\ \/ k = Len(a) /\ k < Len(b)
          \/ k < Len(a) /\ k < Len(b) /\ CodePoint(a[k + 1]) < CodePoint(b[k + 1])

HasTrueFlag(t) == "completed" \in DOMAIN t /\ t["completed"] = TRUE

CreatedOf(t) == IF "created_at" \in DOMAIN t THEN t["created_at"] ELSE 0

\* the j-th smallest element of S
Nth(S, j) == CHOOSE x \in S : Cardinality({y \in S : y < x}) = j - 1

\* --- C9 ------------------------------------------------------------------
\* task i of the collection is shown before task j
ShownBefore(i, j) ==
    LET lt(x, y) == IF sort_mode = "alpha"
                    THEN LexLess(Lower(tasks[x]["title"]), Lower(tasks[y]["title"]))
                    ELSE CreatedOf(tasks[x]) > CreatedOf(tasks[y])
    IN lt(i, j) \/ (~lt(j, i) /\ i < j)

ViewIsQuery ==
    proc = "running" =>
      LET q == Lower(Trimmed(search_var))
          Hit == {i \in 1..Len(tasks) : Occurs(q, Lower(tasks[i]["title"]))}
      IN /\ Len(filtered_tasks) = Cardinality(Hit)
         /\ \A i \in Hit :
              filtered_tasks[1 + Cardinality({j \in Hit : ShownBefore(j, i)})] = tasks[i]

QueryIsPure ==
    last'.op \in {"search", "sort"} => UNCHANGED <<tasks, file, bak>>

\* C9: the view is exactly the tasks whose lower-cased title contains the
\* trimmed, lower-cased search text (all tasks when it is empty), ascending by
\* lower-cased title in alpha mode and descending by created_at in date mode,
\* equal keys in collection order; computing it changes neither the
\* collection nor the two files.
C9_QueryFiltersAndSorts == []ViewIsQuery /\ [][QueryIsPure]_vars

C9_Witness ==
    /\ last.op = "search"
    /\ sort_mode = "date"
    /\ Len(tasks) = 3
    /\ Len(filtered_tasks) = 2
    /\ CreatedOf(filtered_tasks[1]) = CreatedOf(filtered_tasks[2])
    /\ filtered_tasks[1] # filtered_tasks[2]
    /\ tasks[1] \notin {filtered_tasks[1], filtered_tasks[2]}

\* --- C6 ------------------------------------------------------------------
\* C6: a create or an edit whose text is blank (empty after trimming) leaves
\* the collection as it is and writes neither the primary file nor the .bak.
C6_BlankTitleRejected ==
    [][ last'.op \in {"add", "edit"} =>
          \A raw \in RawTitles :
            IsBlank(raw) =>
              /\ (\E now \in Times, out \in StoreOutcomes : add_task(raw, now, out))
                    => UNCHANGED <<tasks, file, bak>>
              /\ (\E now \in Times, out \in StoreOutcomes :
                       edit_task(FALSE, raw, now, out))
                    => UNCHANGED <<tasks, file, bak>>
      ]_vars

C6_Witness ==
    /\ last = Op("edit", "EmptyTitle")
    /\ Len(tasks) >= 2
    /\ sel # 0
    /\ file = Json(tasks)

\* --- C7 ------------------------------------------------------------------
\* C7: clear-completed removes exactly the tasks whose completed flag is
\* true, keeps the others in order and unchanged, reports the number removed,
\* and with no completed task changes nothing and writes nothing.
C7_ClearRemovesExactlyCompleted ==
    [][ last'.op = "clear" =>
          LET Gone_ == {i \in 1..Len(tasks) : HasTrueFlag(tasks[i])}
              Kept == (1..Len(tasks)) \ Gone_
          IN IF Gone_ = {}
             THEN last'.res = "nothing" /\ UNCHANGED <<tasks, file, bak>>
             ELSE IF last'.res = "ok"
             THEN /\ Len(tasks') = Cardinality(Kept)
                  /\ \A j \in 1..Len(tasks') : tasks'[j] = tasks[Nth(Kept, j)]
                  /\ last'.n = Cardinality(Gone_)
                  /\ last'.n = Len(tasks) - Len(tasks')
                  /\ saved' = "ok" => file' = Json(tasks')
             ELSE last'.res = "cancel" /\ UNCHANGED <<tasks, file, bak>>
      ]_vars

C7_Witness ==
    /\ last.op = "clear"
    /\ last.res = "ok"
    /\ last.n >= 1
    /\ tasks # <<>>
    /\ \E i \in 1..Len(tasks) : "completed" \notin DOMAIN tasks[i]

\* --- C5 ------------------------------------------------------------------
\* C5: no two tasks of the collection share an id, whatever valid JSON file
\* was loaded, and add gives an id that no task has or had.
C5_IdsUnique ==
    /\ proc = "running" =>
         \A i, j \in 1..Len(tasks) : i # j => tasks[i]["id"] # tasks[j]["id"]
    /\ (proc = "running" /\ last.op = "add" /\ last.res = "ok") =>
         /\ tasks[1]["id"] = uuids
         /\ \A i \in 2..Len(tasks) : tasks[i]["id"] < uuids

\* --- C10 -----------------------------------------------------------------
\* C10: every row of the view is a task of the collection, and an edit,
\* delete or toggle on the selected row changes the stored task that row
\* shows, and no other.
C10_RowOperationHitsItsTask ==
    [][ /\ proc' = "running" =>
             \A k \in 1..Len(filtered_tasks') :
                \E i \in 1..Len(tasks') : tasks'[i] = filtered_tasks'[k]
        /\ (last'.op \in {"edit", "delete", "toggle"} /\ last'.res = "ok") =>
             \E i \in 1..Len(tasks) :
                /\ sel # 0
                /\ tasks[i] = filtered_tasks[sel]
                /\ IF last'.op = "delete"
                   THEN /\ Len(tasks') = Len(tasks) - 1
                        /\ \A j \in 1..Len(tasks') :
                              tasks'[j] = tasks[IF j < i THEN j ELSE j + 1]
                   ELSE /\ Len(tasks') = Len(tasks)
                        /\ \A j \in 1..Len(tasks) : j # i => tasks'[j] = tasks[j]
                        /\ "updated_at" \in DOMAIN tasks'[i]
                        /\ tasks'[i]["id"] = tasks[i]["id"]
                        /\ CreatedOf(tasks'[i]) = CreatedOf(tasks[i])
                        /\ IF last'.op = "toggle"
                           THEN /\ tasks'[i]["completed"] = ~HasTrueFlag(tasks[i])
                                /\ tasks'[i]["title"] = tasks[i]["title"]
                           ELSE HasTrueFlag(tasks'[i]) = HasTrueFlag(tasks[i])
      ]_vars

\* --- C8 ------------------------------------------------------------------
AddedInFront(raw, now) ==
    /\ Len(tasks') = Len(tasks) + 1
    /\ DOMAIN tasks'[1] = {"id", "title", "completed", "created_at"}
    /\ IsTrimOf(tasks'[1]["title"], raw)
    /\ tasks'[1]["completed"] = FALSE
    /\ tasks'[1]["created_at"] = now
    /\ \A i \in 1..Len(tasks) : tasks'[i + 1] = tasks[i]

\* C8 as stated: a create with a non-blank title puts one new task in front,
\* trimmed title, completed false, no updated_at, the others untouched, and
\* the new collection is in the primary file.
C8_AddPersists ==
    [][ last'.op = "add" =>
          \A raw \in DiskTitles, now \in DiskTimes, out \in Returns :
            (~IsBlank(raw) /\ add_task(raw, now, out)) =>
               AddedInFront(raw, now) /\ file' = Json(tasks')
      ]_vars

\* C8 amended: the same, the new collection being in the primary file when
\* the write of save_tasks succeeds; when it fails the error is reported and
\* the task stays in memory.
C8_AddPersistsUnlessWriteFails ==
    [][ last'.op = "add" =>
          \A raw \in DiskTitles, now \in DiskTimes, out \in Returns :
            (~IsBlank(raw) /\ add_task(raw, now, out)) =>
               /\ AddedInFront(raw, now)
               /\ WriteOk(out) => (file' = Json(tasks') /\ saved' = "ok")
               /\ ~WriteOk(out) => (file' # Json(tasks') /\ saved' = "failed")
      ]_vars

C8_Witness ==
    /\ last = Op("add", "ok")
    /\ Len(tasks) >= 2
    /\ saved = "ok"
    /\ file = Json(tasks)
    /\ "updated_at" \notin DOMAIN tasks[1]

\* --- C2 ------------------------------------------------------------------
\* C2 as stated: between commands the primary file is at most one completed
\* mutating operation behind the collection.
C2_AtMostOneBehind ==
    proc = "running" => (file = Json(tasks) \/ stale <= 1)

\* C2 amended: between commands the primary file holds exactly the
\* collection whenever the latest save attempt of the run succeeded.
C2_FileCurrentAfterGoodSave ==
    (proc = "running" /\ saved = "ok") => file = Json(tasks)

C2_Witness ==
    /\ proc = "running"
    /\ saved = "ok"
    /\ last = Op("toggle", "ok")
    /\ Len(tasks) >= 2
    /\ file = Json(tasks)
    /\ bak.kind = "json"
    /\ bak # file

\* --- C1 ------------------------------------------------------------------
\* C1: the last saves succeeded and .bak holds the tasks of the last good
\* save; the primary file is then damaged and found corrupt at load.  Load
\* gives an empty collection, writes the empty array to the primary file, and
\* .bak still holds those tasks.
C1_BackupSurvivesRecovery ==
    [][ ( /\ proc = "stopped"
          /\ last = Op("corrupt", "close")
          /\ file.kind = "corrupt"
          /\ clean
          /\ committed # <<>>
          /\ bak = Json(committed)
          /\ last'.op = "start" ) =>
            /\ tasks' = <<>>
            /\ saved' = "ok" => (file' = Json(<<>>) /\ bak' = bak)
      ]_vars

\* --- C3 ------------------------------------------------------------------
\* C3: the process died inside a mutating operation whose predecessors were
\* all saved; once the application has been started again and load has run
\* (its own save, if any, succeeding), the collection of the last completed
\* operation is in the primary file or in .bak.
C3_CrashLosesOnlyInFlight ==
    [][ ( /\ proc = "stopped"
          /\ last.op = "crash"
          /\ last.res \in {"add", "edit", "delete", "toggle", "clear"}
          /\ clean
          /\ committed # <<>>
          /\ last'.op = "start"
          /\ saved' # "failed" ) =>
            (file' = Json(committed) \/ bak' = Json(committed))
      ]_vars

\* --- C4 ------------------------------------------------------------------
\* C4: a load that fails with an I/O error other than invalid JSON gives an
\* empty collection and writes nothing, and closing the application right
\* after it leaves the primary file as it was.
C4_IoErrorKeepsFile ==
    [][ /\ last' = Op("start", "io_error") =>
             (tasks' = <<>> /\ UNCHANGED <<file, bak>>)
        /\ (last = Op("start", "io_error") /\ last'.op = "close") =>
             file' = file
      ]_vars

====
